---- MODULE Spec2Model ----
(***************************************************************************)
(* Document-image pipeline of the scanner front end:                       *)
(*   - services/drive.js : estimateByteSize, buildScanReadyAsset (budget   *)
(*     loop), sanitizeFileName, writePdfToCache, generatePdfFromImages,    *)
(*     convertPdfToDataUri                                                 *)
(*   - ImageEditor.applyScanMatrix (scan filter)                           *)
(*   - ImageEditor.calculateCropDimensions and the editor component's      *)
(*     calculateAutoCrop (crop geometry), the editor's editing state       *)
(*   - App.js : the captures list; screens/Processing.jsx : the effect of  *)
(*     the Processing screen and its cancellation                          *)
(*                                                                         *)
(* Text is a sequence of one-character strings.  A base64 payload is the   *)
(* record [len, pad]: its length in characters and the number of trailing  *)
(* '=' characters, which is all estimateByteSize reads of it.  Quality     *)
(* factors are in hundredths (0.58 is 58).                                 *)
(***************************************************************************)
EXTENDS Integers, Sequences, FiniteSets, TLC

VARIABLES
    platform,     \* Platform.OS: "web" or "native"
    captures,     \* argument of generatePdfFromImages: [isArray, items]
    title,        \* argument of generatePdfFromImages
    pc,           \* position in generatePdfFromImages / its caller
    error,        \* the error thrown, "none" while none
    docCreated,   \* PDFDocument.create() has returned
    pages,        \* pdfDoc's pages: the embedded image of each, in page order
    i,            \* loop index of generatePdfFromImages (0-based)
    width,        \* buildScanReadyAsset: let width
    compression,  \* buildScanReadyAsset: let compression (hundredths)
    attempt,      \* buildScanReadyAsset: loop counter
    lastResult,   \* buildScanReadyAsset: let lastResult
    prepared,     \* generatePdfFromImages: const prepared
    manipCalls,   \* manipulateAsync calls made by the current buildScanReadyAsset
    attemptLog,   \* the encoded attempts of the current buildScanReadyAsset, in order
    lastOutcome,  \* what the latest manipulateAsync call did
    prepStarted,  \* number of buildScanReadyAsset invocations so far
    progress,     \* the onProgress callbacks emitted, in order
    writeCalls,   \* number of writePdfToCache invocations
    fileContent,  \* base64 content of the PDF file written to the cache (native)
    artifact,     \* value generatePdfFromImages returned
    payload,      \* value convertPdfToDataUri returned
    sanValue,     \* sanitizeFileName: its argument, [defined, text]
    sanResult,    \* sanitizeFileName: the value returned
    sanPc,        \* sanitizeFileName: "call" before, "done" after
    scanInput,    \* applyScanMatrix: the buffer as it was passed in
    scanData,     \* applyScanMatrix: data, the buffer mutated in place
    scanI,        \* applyScanMatrix: loop index i
    scanPc,       \* applyScanMatrix: "loop" while running, "done" after
    scanVariant,  \* which applyScanMatrix runs: "current" or "earlier"
    cropDims,     \* calculateAutoCrop: dims, [width, height]
    cropEdits,    \* calculateAutoCrop: currentEdits
    cropResult,   \* calculateAutoCrop: the value returned
    cropPc,       \* calculateAutoCrop: "call" before, "done" after
    editing,      \* ImageEditor: the editing state
    imageDimensionsRef,   \* ImageEditor: imageDimensionsRef.current
    selectedAspectRatio,  \* ImageEditor: the selectedAspectRatio state
    imageDims,    \* ImageEditor: size of the image at imageUri
    initialEdits, \* ImageEditor: the initialEdits prop
    editorPc,     \* ImageEditor: "init" until the init effect has run
    loads,        \* ImageEditor: number of onLoad events handled
    appCaptures,  \* App: the captures state, the ids of the captures in order
    addCalls,     \* App: number of onAddCapture calls so far
    lastOp,       \* App: what the latest handler of the captures did
    screen,       \* App: the screen state
    analysis,     \* App: the analysis state
    procError,    \* ProcessingScreen: the error state of the mounted screen
    runs,         \* ProcessingScreen: the runs of its effect, oldest first
    analyzedBy,   \* the runs that have called onAnalyzed
    applyArgs,    \* applyEdits: its arguments, [uri, edits, skipFilter]
    applyPc,      \* applyEdits: "call", "filter", "done" / "failed", "prepared"
    opLog,        \* the operations made on the image so far, in order
    applyOut,     \* applyEdits: the value returned or the error thrown
    photosTaken,  \* CameraScreen: number of photographs taken
    pendingCapture,   \* CameraScreen: the pendingCapture state (0 is null)
    editorProcessing, \* ImageEditor: the processing state (Save is disabled)
    saving,       \* the handleSave calls in flight: photograph and position
    addedFor      \* the photograph of each entry appended to the captures

pdfVars == <<platform, captures, title, pc, error, docCreated, pages, i, width,
             compression, attempt, lastResult, prepared, manipCalls, attemptLog,
             lastOutcome, prepStarted, progress, writeCalls, fileContent, artifact, payload>>

sanVars == <<sanValue, sanResult, sanPc>>

scanVars == <<scanInput, scanData, scanI, scanPc, scanVariant>>

cropVars == <<cropDims, cropEdits, cropResult, cropPc>>

\* the image editor, the App and the Processing screen
editVars == <<editing, imageDimensionsRef, selectedAspectRatio, imageDims,
              initialEdits, editorPc, loads>>

appVars == <<appCaptures, addCalls, lastOp>>

procVars == <<screen, analysis, procError, runs, analyzedBy>>

applyVars == <<applyArgs, applyPc, opLog, applyOut>>

camVars == <<photosTaken, pendingCapture, editorProcessing, saving, addedFor>>

uiVars == <<cropVars, editVars, appVars, procVars, applyVars, camVars>>

vars == <<pdfVars, sanVars, scanVars, uiVars>>

-----------------------------------------------------------------------------
(* Bounds of the model *)

\* longest captures array tried (one more than the page cap)
MaxLen == 11

\* most runs of equal characters in a text passed to sanitizeFileName
MaxRuns == 3

\* most pixels in a buffer passed to applyScanMatrix
MaxPixels == 2

\* guide coordinates are tried in steps of 1 / GuideSteps of the screen
GuideSteps == 2

\* longest side of the small images tried, in pixels
MaxSide == 4

\* most onLoad events of the preview image handled by the editor
MaxLoads == 2

\* most onAddCapture calls (one more than the page cap)
MaxAdds == 6

\* most runs of the effect of the Processing screen
MaxEffects == 3

\* photographs taken on the Camera screen
MaxPhotos == 3

\* captures added while the screens are walked through
MaxNavAdds == 2

\* number of values of each colour channel tried by the range check
GridPoints == 16

(* Program constants *)

\* App.js: const MAX_PAGES = 5
MAX_PAGES == 5

PDF_MAX_BYTES == 50 * 1024 * 1024
SCAN_TARGET_WIDTH == 1500
SCAN_MIN_WIDTH == 1000
SCAN_INITIAL_COMPRESSION == 58
SCAN_MIN_COMPRESSION == 40
SCAN_TARGET_PAGE_BYTES == 350 * 1024
\* faulty variant of MaxAttempts: a loop of three passes, which ends above the
\* floors
MaxAttemptsThree == 4 - 1

\* for (let attempt = 0; attempt < 4; ...)
MaxAttempts == 4
\* if (captures.length > 10)
MaxPages == 10

\* a missing value (null / undefined)
None == [kind |-> "none"]
\* capture.uri of a capture that has none (falsy)
NoUri == 0

Max(a, b) == IF a >= b THEN a ELSE b

\* 'data:application/pdf;base64,'
DataUriPrefix == "data:application/pdf;base64,"

-----------------------------------------------------------------------------
(* estimateByteSize(base64) *)
EstimateByteSize(b64) ==
    IF b64.len = 0 THEN 0
    ELSE ((b64.len * 3) \div 4) - b64.pad

-----------------------------------------------------------------------------
(* Inputs *)

\* capture k of an array: its own image (uri k), or a capture without uri
CaptureAt(k, bad) == [id |-> k, uri |-> IF k = bad THEN NoUri ELSE k]

\* arrays of 0..MaxLen captures with distinct images, at most one of them
\* lacking its uri (assembly aborts at the first such capture), and a value
\* that is not an array
CaptureInputs ==
    { [isArray |-> TRUE, items |-> [k \in 1..n |-> CaptureAt(k, bad)]] :
        n \in 0..MaxLen, bad \in 0..MaxLen }
    \cup { [isArray |-> FALSE, items |-> <<>>] }

\* base64 payloads manipulateAsync may report: empty, 1 byte, exactly the page
\* budget (358400 bytes), one byte over it
JpegPayloads ==
    { [len |-> 0, pad |-> 0], [len |-> 4, pad |-> 2],
      [len |-> 477868, pad |-> 1], [len |-> 477868, pad |-> 0] }

\* what one manipulateAsync call can do: throw, resolve to nothing, or resolve to
\* a result carrying a base64 payload
ManipOutcomes ==
    { [kind |-> "throw", base64 |-> [len |-> 0, pad |-> 0]],
      [kind |-> "null", base64 |-> [len |-> 0, pad |-> 0]] }
    \cup { [kind |-> "ok", base64 |-> b] : b \in JpegPayloads }

\* base64 serializations saveAsBase64 may produce: tiny, exactly 50 MB, 50 MB + 1
PdfPayloads ==
    { [len |-> 8, pad |-> 1], [len |-> 69905068, pad |-> 1],
      [len |-> 69905068, pad |-> 0] }

\* titles passed to generatePdfFromImages ('document' is its default and what
\* the Processing screen passes)
Titles ==
    { <<"d", "o", "c", "u", "m", "e", "n", "t">>, <<"a", "/", "_", "b", " ">> }

-----------------------------------------------------------------------------
(* sanitizeFileName(value) *)

Letters ==
    { "a", "b", "c", "d", "e", "f", "g", "h", "i", "j", "k", "l", "m",
      "n", "o", "p", "q", "r", "s", "t", "u", "v", "w", "x", "y", "z",
      "A", "B", "C", "D", "E", "F", "G", "H", "I", "J", "K", "L", "M",
      "N", "O", "P", "Q", "R", "S", "T", "U", "V", "W", "X", "Y", "Z" }

Digits == { "0", "1", "2", "3", "4", "5", "6", "7", "8", "9" }

\* the characters the class [^a-z0-9_\-\.] with flags gi does not match
ValidChars == Letters \cup Digits \cup { "_", "-", "." }

\* .slice(0, 80)
MaxNameLen == 80

\* 'document'
DefaultName == <<"d", "o", "c", "u", "m", "e", "n", "t">>

\* .replace(/[^a-z0-9_\-\.]/gi, '_')
ReplaceInvalid(s) ==
    [k \in 1..Len(s) |-> IF s[k] \in ValidChars THEN s[k] ELSE "_"]

\* .replace(/_+/g, '_'): of every run of underscores the first is kept, so an
\* underscore goes exactly when the character before it is an underscore
CollapseUnderscores(s) ==
    LET withPrev == [k \in 1..Len(s) |->
                        [ch |-> s[k], prev |-> IF k > 1 THEN s[k - 1] ELSE ""]]
        Kept(e) == ~(e.ch = "_" /\ e.prev = "_")
        kept == SelectSeq(withPrev, Kept)
    IN [k \in 1..Len(kept) |-> kept[k].ch]

\* .replace(/^_+|_+$/g, '')
StripUnderscores(s) ==
    LET keep == { k \in 1..Len(s) : s[k] # "_" }
    IN IF keep = {} THEN <<>>
       ELSE SubSeq(s, CHOOSE k \in keep : \A m \in keep : k <= m,
                      CHOOSE k \in keep : \A m \in keep : k >= m)

\* .slice(0, 80)
SliceName(s) == IF Len(s) <= MaxNameLen THEN s ELSE SubSeq(s, 1, MaxNameLen)

\* value is [defined, text]: a missing value or a string
SanitizeFileName(value) ==
    IF ~value.defined \/ value.text = <<>> THEN DefaultName
    ELSE LET r == SliceName(StripUnderscores(CollapseUnderscores(
                      ReplaceInvalid(value.text))))
         IN IF r = <<>> THEN DefaultName ELSE r

Str(text) == [defined |-> TRUE, text |-> text]

-----------------------------------------------------------------------------
(* generatePdfFromImages, with buildScanReadyAsset and writePdfToCache, then  *)
(* convertPdfToDataUri as the Processing screen calls it on the result       *)

\* sanitizeFileName is not running
SanIdle ==
    /\ sanValue = [defined |-> FALSE, text |-> <<>>]
    /\ sanResult = <<>>
    /\ sanPc = "idle"

\* applyScanMatrix is not running
ScanIdle ==
    /\ scanInput = <<>>
    /\ scanData = <<>>
    /\ scanI = 0
    /\ scanPc = "idle"
    /\ scanVariant = "current"

\* calculateAutoCrop is not running
CropIdle ==
    /\ cropDims = [width |-> 1, height |-> 1]
    /\ cropEdits = None
    /\ cropResult = None
    /\ cropPc = "idle"

\* no image is being edited
EditorIdle ==
    /\ editing = None
    /\ imageDimensionsRef = [width |-> 0, height |-> 0]
    /\ selectedAspectRatio = "letter"
    /\ imageDims = [width |-> 1, height |-> 1]
    /\ initialEdits = None
    /\ editorPc = "idle"
    /\ loads = 0

\* no capture has been taken
AppIdle ==
    /\ appCaptures = <<>>
    /\ addCalls = 0
    /\ lastOp = None

\* the Processing screen has not been shown
ProcIdle ==
    /\ screen = "Home"
    /\ analysis = None
    /\ procError = None
    /\ runs = <<>>
    /\ analyzedBy = { }

\* applyEdits is not running
ApplyIdle ==
    /\ applyArgs = None
    /\ applyPc = "idle"
    /\ opLog = <<>>
    /\ applyOut = None

\* no photograph has been taken
CamIdle ==
    /\ photosTaken = 0
    /\ pendingCapture = 0
    /\ editorProcessing = FALSE
    /\ saving = {}
    /\ addedFor = <<>>

\* nothing runs in the editor, the App or the Processing screen
UiIdle ==
    /\ CropIdle
    /\ EditorIdle
    /\ AppIdle
    /\ ProcIdle
    /\ ApplyIdle
    /\ CamIdle

\* generatePdfFromImages is not running
PdfIdle ==
    /\ platform = "native"
    /\ captures = [isArray |-> FALSE, items |-> <<>>]
    /\ title = <<>>
    /\ pc = "idle"
    /\ error = "none"
    /\ docCreated = FALSE
    /\ pages = <<>>
    /\ i = 0
    /\ width = 0
    /\ compression = 0
    /\ attempt = 0
    /\ lastResult = None
    /\ prepared = None
    /\ manipCalls = 0
    /\ attemptLog = <<>>
    /\ lastOutcome = "none"
    /\ prepStarted = 0
    /\ progress = <<>>
    /\ writeCalls = 0
    /\ fileContent = None
    /\ artifact = None
    /\ payload = None

PdfInit ==
    /\ SanIdle
    /\ ScanIdle
    /\ UiIdle
    /\ platform \in { "web", "native" }
    /\ captures \in CaptureInputs
    /\ title \in Titles
    /\ pc = "validate"
    /\ error = "none"
    /\ docCreated = FALSE
    /\ pages = <<>>
    /\ i = 0
    /\ width = 0
    /\ compression = 0
    /\ attempt = 0
    /\ lastResult = None
    /\ prepared = None
    /\ manipCalls = 0
    /\ attemptLog = <<>>
    /\ lastOutcome = "none"
    /\ prepStarted = 0
    /\ progress = <<>>
    /\ writeCalls = 0
    /\ fileContent = None
    /\ artifact = None
    /\ payload = None

\* throw new Error(...) outside the page loop: the function is left, nothing
\* is returned
Throw(msg) ==
    /\ pc' = "failed"
    /\ error' = msg

\* control moves on inside the page loop, same page
Proceed(next) ==
    /\ pc' = next
    /\ error' = error
    /\ i' = i

\* faulty variant of FailPage: the error is caught and the loop goes on with
\* the next page
SkipPage(msg) ==
    /\ pc' = "page"
    /\ error' = msg
    /\ i' = i + 1

\* an error thrown while page i is prepared or embedded: nothing catches it
\* in buildScanReadyAsset or generatePdfFromImages, so the function is left
FailPage(msg) ==
    /\ pc' = "failed"
    /\ error' = msg
    /\ i' = i

\* drive.js 89-94: the two precondition checks
TooFew(c) == ~c.isArray \/ Len(c.items) = 0
\* faulty variant of TooMany: the cap off by one
TooManyOffByOne(c) == Len(c.items) > MaxPages + 1

TooMany(c) == Len(c.items) > MaxPages

Validate ==
    /\ pc = "validate"
    /\ IF TooFew(captures) THEN Throw("At least one capture is required")
       ELSE IF TooMany(captures) THEN Throw("supports up to 10 pages")
       ELSE pc' = "create" /\ UNCHANGED error
    /\ UNCHANGED <<sanVars, scanVars, uiVars, attemptLog, platform, captures, title, docCreated, pages, i, width,
                   compression, attempt, lastResult, prepared, manipCalls,
                   lastOutcome, prepStarted, progress, writeCalls, fileContent,
                   artifact, payload>>

\* const pdfDoc = await PDFDocument.create(); then the for loop starts at i = 0
CreateDoc ==
    /\ pc = "create"
    /\ docCreated' = TRUE
    /\ pages' = <<>>
    /\ i' = 0
    /\ pc' = "page"
    /\ UNCHANGED <<sanVars, scanVars, uiVars, attemptLog, platform, captures, title, error, width, compression, attempt,
                   lastResult, prepared, manipCalls, lastOutcome, prepStarted,
                   progress, writeCalls, fileContent, artifact, payload>>

\* loop test i < captures.length; const capture = captures[i]; entry of
\* buildScanReadyAsset(capture?.uri, i) up to its for loop
BeginPage ==
    /\ pc = "page"
    /\ IF i >= Len(captures.items)
       THEN /\ Proceed("write")
            /\ UNCHANGED <<width, compression, attempt, lastResult,
                           prepared, manipCalls, attemptLog, lastOutcome, prepStarted>>
       ELSE /\ prepStarted' = prepStarted + 1
            /\ manipCalls' = 0
            /\ attemptLog' = <<>>
            /\ lastOutcome' = "none"
            /\ prepared' = None
            /\ lastResult' = None
            /\ attempt' = 0
            /\ IF captures.items[i + 1].uri = NoUri
               THEN /\ FailPage("Missing URI for page")
                    /\ UNCHANGED <<width, compression>>
               ELSE /\ width' = SCAN_TARGET_WIDTH
                    /\ compression' = SCAN_INITIAL_COMPRESSION
                    /\ Proceed("attempt")
    /\ UNCHANGED <<sanVars, scanVars, uiVars, platform, captures, title, docCreated, pages, progress,
                   writeCalls, fileContent, artifact, payload>>

\* faulty variant of AcceptResult: every result is taken
AcceptResultAlways(byteSize, w, c) == TRUE

\* drive.js 49-52: the result is under budget, or both floors are reached
AcceptResult(byteSize, w, c) ==
    \/ byteSize <= SCAN_TARGET_PAGE_BYTES
    \/ (w <= SCAN_MIN_WIDTH /\ c <= SCAN_MIN_COMPRESSION)

\* faulty variant of NextWidth: no floor
NextWidthUnfloored(w) == (w * 86) \div 100

\* drive.js 56: Math.max(SCAN_MIN_WIDTH, Math.floor(width * 0.86))
NextWidth(w) == Max(SCAN_MIN_WIDTH, (w * 86) \div 100)

\* drive.js 57: Math.max(SCAN_MIN_COMPRESSION, Math.round((compression - 0.07) * 100) / 100)
NextCompression(c) == Max(SCAN_MIN_COMPRESSION, c - 7)

\* faulty variant of LoopDecision: retry until the estimate fits the budget
LoopDecisionUntilFits(byteSize, w, c, att) ==
    IF byteSize <= SCAN_TARGET_PAGE_BYTES THEN "return" ELSE "retry"

\* the budget loop's decision after an encoded attempt (drive.js 31, 49-58):
\* return this result, retry on the next rung, or leave the exhausted loop
\* and return lastResult (which is this result)
LoopDecision(byteSize, w, c, att) ==
    IF AcceptResult(byteSize, w, c) THEN "return"
    ELSE IF att + 1 < MaxAttempts THEN "retry"
    ELSE "exhausted"

\* what !manipulated?.base64 tests: no result, or an empty payload
NoPayload(o) == o.kind # "ok" \/ o.base64.len = 0

\* faulty variant of EncodeFailed: an earlier attempt's result is returned
\* when there is one
EncodeFallback(o) ==
    IF lastResult.kind = "image"
    THEN /\ prepared' = lastResult
         /\ Proceed("embed")
         /\ UNCHANGED <<width, compression, attempt, lastResult>>
    ELSE /\ FailPage("Failed to convert page to base64")
         /\ UNCHANGED <<width, compression, attempt, lastResult, prepared>>

\* drive.js 32-40: manipulateAsync threw, or resolved without a payload:
\* buildScanReadyAsset throws, whatever lastResult holds
EncodeFailed(o) ==
    /\ FailPage(IF o.kind = "throw" THEN "manipulateAsync failed"
                ELSE "Failed to convert page to base64")
    /\ UNCHANGED <<width, compression, attempt, lastResult, prepared>>

\* one pass of the budget loop of buildScanReadyAsset, from the resolution of
\* one manipulateAsync call to the next await: the payload test, the size
\* test, the next rung of the ladder and the loop test
Attempt ==
    /\ pc = "attempt"
    /\ \E o \in ManipOutcomes :
         /\ manipCalls' = manipCalls + 1
         /\ attemptLog' = IF NoPayload(o) THEN attemptLog
                          ELSE Append(attemptLog,
                                      [byteSize |-> EstimateByteSize(o.base64),
                                       width |-> width, quality |-> compression])
         /\ lastOutcome' = IF NoPayload(o) THEN "failed" ELSE "encoded"
         /\ IF NoPayload(o)
            THEN EncodeFailed(o)
            ELSE LET res == [kind |-> "image",
                             base64 |-> o.base64,
                             src |-> captures.items[i + 1].uri,
                             width |-> width,
                             quality |-> compression,
                             attempt |-> attempt]
                     decision == LoopDecision(EstimateByteSize(res.base64),
                                              width, compression, attempt)
                 IN /\ lastResult' = res
                    /\ IF decision = "return"
                       THEN /\ prepared' = res
                            /\ Proceed("embed")
                            /\ UNCHANGED <<width, compression, attempt>>
                       ELSE /\ width' = NextWidth(width)
                            /\ compression' = NextCompression(compression)
                            /\ attempt' = attempt + 1
                            /\ IF decision = "retry"
                               THEN /\ prepared' = prepared
                                    /\ Proceed("attempt")
                               ELSE /\ prepared' = res
                                    /\ Proceed("embed")
    /\ UNCHANGED <<sanVars, scanVars, uiVars, platform, captures, title, docCreated, pages, prepStarted,
                   progress, writeCalls, fileContent, artifact, payload>>

\* faulty variant of AddPage: the new page is put in front
InsertPageFirst(doc, img) == <<img.src>> \o doc

\* pdfDoc.embedJpg + pdfDoc.addPage + the draw calls: a page holding the image
\* is appended to the document
AddPage(doc, img) == Append(doc, img.src)

\* faulty variant of ProgressEvent: the loop index reported as it is
ProgressEventZeroBased(idx, total) == [current |-> idx, total |-> total]

\* onProgress?.({ current: i + 1, total: captures.length })
ProgressEvent(idx, total) == [current |-> idx + 1, total |-> total]

\* drive.js 101-146: the check of prepared, embedJpg (which may throw), the new
\* page and its drawing, the progress callback, and i += 1
Embed ==
    /\ pc = "embed"
    /\ \E embedOk \in BOOLEAN :
         IF prepared.kind = "none"
         THEN /\ FailPage("Failed to prepare page")
              /\ UNCHANGED <<pages, progress>>
         ELSE IF ~embedOk
         THEN /\ FailPage("embedJpg failed")
              /\ UNCHANGED <<pages, progress>>
         ELSE /\ pages' = AddPage(pages, prepared)
              /\ progress' = Append(progress, ProgressEvent(i, Len(captures.items)))
              /\ i' = i + 1
              /\ pc' = "page"
              /\ error' = error
    /\ UNCHANGED <<sanVars, scanVars, uiVars, attemptLog, platform, captures, title, docCreated, width, compression,
                   attempt, lastResult, prepared, manipCalls, lastOutcome,
                   prepStarted, writeCalls, fileContent, artifact, payload>>

\* pdfDoc.saveAsBase64({ dataUri: true })
SaveAsDataUri(b64) == [kind |-> "data", prefix |-> DataUriPrefix, base64 |-> b64]

\* faulty variant of DataUri: the content cut to 1024 characters
DataUriCut(b64) ==
    [kind |-> "data", prefix |-> DataUriPrefix,
     base64 |-> [len |-> IF b64.len > 1024 THEN 1024 ELSE b64.len, pad |-> 0]]

\* `data:application/pdf;base64,${base64}`: the prefix followed by all of the
\* base64 content
DataUri(b64) == [kind |-> "data", prefix |-> DataUriPrefix, base64 |-> b64]

\* `${targetDir}${safeTitle}-${Date.now()}.pdf`
PdfPath(safeTitle) == [kind |-> "file", dir |-> "cache", name |-> safeTitle]

\* '.pdf'
PdfSuffix == <<".", "p", "d", "f">>

\* drive.js 149-156 with writePdfToCache (72-86): the document is serialized
\* (the save or the file write may throw); on web the data URI is the uri, on
\* native the base64 is written to a cache file whose path is the uri
WritePdf ==
    /\ pc = "write"
    /\ writeCalls' = writeCalls + 1
    /\ \E b64 \in PdfPayloads, ok \in BOOLEAN :
         IF ~ok
         THEN /\ Throw("saving the document failed")
              /\ UNCHANGED <<fileContent, artifact>>
         ELSE /\ fileContent' = IF platform = "web" THEN fileContent ELSE b64
              /\ artifact' =
                   [kind |-> "artifact",
                    name |-> title \o PdfSuffix,
                    mimeType |-> "application/pdf",
                    uri |-> IF platform = "web" THEN SaveAsDataUri(b64)
                            ELSE PdfPath(SanitizeFileName(Str(title))),
                    pageCount |-> Len(captures.items)]
              /\ pc' = "convert"
              /\ error' = error
    /\ UNCHANGED <<sanVars, scanVars, uiVars, attemptLog, platform, captures, title, docCreated, pages, i, width,
                   compression, attempt, lastResult, prepared, manipCalls,
                   lastOutcome, prepStarted, progress, payload>>

\* convertPdfToDataUri(pdf.uri), drive.js 159-179: on web the uri is returned
\* as it is; on native the file is read (which may throw), its size estimated
\* and checked, and the data URI built; every throw is rethrown by the catch
Convert ==
    /\ pc = "convert"
    /\ \E readOk \in BOOLEAN :
         IF platform = "web"
         THEN /\ payload' = artifact.uri
              /\ pc' = "done"
              /\ error' = error
         ELSE IF ~readOk
         THEN /\ Throw("Failed to convert PDF to data URI: read failed")
              /\ payload' = payload
         ELSE IF EstimateByteSize(fileContent) > PDF_MAX_BYTES
         THEN /\ Throw("Failed to convert PDF to data URI: PDF exceeds the 50MB upload limit")
              /\ payload' = payload
         ELSE /\ payload' = DataUri(fileContent)
              /\ pc' = "done"
              /\ error' = error
    /\ UNCHANGED <<sanVars, scanVars, uiVars, attemptLog, platform, captures, title, docCreated, pages, i, width,
                   compression, attempt, lastResult, prepared, manipCalls,
                   lastOutcome, prepStarted, progress, writeCalls, fileContent,
                   artifact>>

PdfNext ==
    \/ Validate
    \/ CreateDoc
    \/ BeginPage
    \/ Attempt
    \/ Embed
    \/ WritePdf
    \/ Convert

SpecPdf == PdfInit /\ [][PdfNext]_vars

-----------------------------------------------------------------------------
(* sanitizeFileName called on its own *)

\* characters of the sample texts: letters of both cases, a digit, the three
\* admitted punctuation marks, and characters outside the class
SampleChars == { "a", "Z", "7", "_", "-", ".", "#", " " }

\* lengths of a run of equal characters; a run of MaxNameLen - 1 lets the
\* text pass the 80-character cut
RunLengths == { 1, MaxNameLen - 1 }

Run(c, n) == [k \in 1..n |-> c]

RECURSIVE Texts(_)
\* the texts made of at most n runs
Texts(n) ==
    IF n = 0 THEN { <<>> }
    ELSE LET shorter == Texts(n - 1)
         IN shorter \cup { t \o Run(c, m) :
                              t \in shorter, c \in SampleChars, m \in RunLengths }

SanInit ==
    /\ PdfIdle
    /\ ScanIdle
    /\ UiIdle
    /\ sanValue \in { [defined |-> FALSE, text |-> <<>>] }
                       \cup { Str(t) : t \in Texts(MaxRuns) }
    /\ sanResult = <<>>
    /\ sanPc = "call"

Sanitize ==
    /\ sanPc = "call"
    /\ sanResult' = SanitizeFileName(sanValue)
    /\ sanPc' = "done"
    /\ UNCHANGED <<sanValue, uiVars, pdfVars, scanVars>>

SanNext == Sanitize

SpecSanitize == SanInit /\ [][SanNext]_vars

-----------------------------------------------------------------------------
(* ImageEditor.applyScanMatrix(data): data is a typed array of RGBA bytes *)

\* Channel values are bytes.  The code computes in double precision
\*   luma = 0.299 r + 0.587 g + 0.114 b,  n = ((luma / 255 - 0.5) * 1.2) + 0.5 + 0.0,
\*   finalValue = Math.round(Math.min(1, Math.max(0, n)) * 255).
\* Here the same value is computed exactly, scaled by 10000: 255 n is
\* (12 (299 r + 587 g + 114 b) - 255000) / 10000.  Where the exact value lies
\* half way between two integers the double result falls on either side, so
\* both neighbours are possible there.

\* const contrastFactor = 1.2, in tenths
ContrastTenths == 12

\* const brightnessOffset = 0.0, in ten-thousandths of the unit range
BrightnessOffset == 0

\* 0.299 * r + 0.587 * g + 0.114 * b, times 1000
Luma1000(r, g, b) == 299 * r + 587 * g + 114 * b

\* the earlier applyScanMatrix: const contrastFactor = 1.8, in tenths
EarlierContrastTenths == 18

\* the earlier applyScanMatrix: const brightnessOffset = 0.06, in
\* ten-thousandths of the unit range
EarlierBrightnessOffset == 600

\* contrastFactor of the applyScanMatrix that runs, in tenths
ContrastFactor ==
    IF scanVariant = "earlier" THEN EarlierContrastTenths ELSE ContrastTenths

\* brightnessOffset of the applyScanMatrix that runs, in ten-thousandths
BrightnessOffsetUsed ==
    IF scanVariant = "earlier" THEN EarlierBrightnessOffset ELSE BrightnessOffset

\* 255 n before the clamp, times 10000
Unclamped10000(r, g, b) ==
    ContrastFactor * Luma1000(r, g, b)
        - (ContrastFactor - 10) * 127500 + 255 * BrightnessOffsetUsed

\* faulty variant of Clamped10000: Math.max(0, ...) left out
ClampedAbove10000(r, g, b) ==
    LET x == Unclamped10000(r, g, b)
    IN IF x > 2550000 THEN 2550000 ELSE x

\* 255 n after the clamp to [0, 1], times 10000
Clamped10000(r, g, b) ==
    LET x == Unclamped10000(r, g, b)
    IN IF x < 0 THEN 0 ELSE IF x > 2550000 THEN 2550000 ELSE x

\* the values Math.round can give
FinalValues(r, g, b) ==
    LET x == Clamped10000(r, g, b)
    IN IF x % 10000 = 5000 THEN { x \div 10000, x \div 10000 + 1 }
       ELSE { (x + 5000) \div 10000 }

\* faulty variant of StorePixel: the alpha byte set to opaque
StorePixelOpaque(data, idx, v) ==
    [data EXCEPT ![idx + 1] = v, ![idx + 2] = v, ![idx + 3] = v, ![idx + 4] = 255]

\* the four stores of one loop pass (idx is 0-based); the alpha byte of a
\* typed array is never undefined, so ?? 255 keeps it
StorePixel(data, idx, v) ==
    [data EXCEPT ![idx + 1] = v, ![idx + 2] = v, ![idx + 3] = v,
                 ![idx + 4] = data[idx + 4]]

\* sample pixels <<r, g, b, a>>
SamplePixels ==
    { <<r, g, b, a>> : r \in { 0, 1, 255 }, g \in { 0, 123, 255 },
                       b \in { 0, 255 }, a \in { 0, 128, 255 } }

RECURSIVE Buffers(_)
\* the RGBA buffers of n pixels
Buffers(n) ==
    IF n = 0 THEN { <<>> }
    ELSE { d \o p : d \in Buffers(n - 1), p \in SamplePixels }

ScanInit ==
    /\ PdfIdle
    /\ SanIdle
    /\ UiIdle
    /\ \E n \in 0..MaxPixels : scanInput \in Buffers(n)
    /\ scanData = scanInput
    /\ scanI = 0
    /\ scanPc = "loop"
    /\ scanVariant \in { "current", "earlier" }

\* one pass of the for loop: i < data.length, the pixel at i .. i + 3
ScanPixel ==
    /\ scanPc = "loop"
    /\ scanI < Len(scanData)
    /\ \E v \in FinalValues(scanData[scanI + 1], scanData[scanI + 2],
                             scanData[scanI + 3]) :
         scanData' = StorePixel(scanData, scanI, v)
    /\ scanI' = scanI + 4
    /\ UNCHANGED <<scanInput, scanPc, scanVariant, uiVars, pdfVars, sanVars>>

\* the loop test fails: applyScanMatrix returns
ScanReturn ==
    /\ scanPc = "loop"
    /\ scanI >= Len(scanData)
    /\ scanPc' = "done"
    /\ UNCHANGED <<scanInput, scanData, scanI, scanVariant, uiVars, pdfVars, sanVars>>

ScanNext ==
    \/ ScanPixel
    \/ ScanReturn

SpecScan == ScanInit /\ [][ScanNext]_vars

\* the channel values of the range check: GridPoints values spread over 0..255
ChannelGrid == { (255 * k) \div (GridPoints - 1) : k \in 0..(GridPoints - 1) }

\* one opaque pixel of every colour of the grid, under either constant set
RangeInit ==
    /\ PdfIdle
    /\ SanIdle
    /\ UiIdle
    /\ \E r \in ChannelGrid, g \in ChannelGrid, b \in ChannelGrid :
         scanInput = <<r, g, b, 255>>
    /\ scanData = scanInput
    /\ scanI = 0
    /\ scanPc = "loop"
    /\ scanVariant \in { "current", "earlier" }

SpecRange == RangeInit /\ [][ScanNext]_vars

-----------------------------------------------------------------------------
(* Crop geometry: ImageEditor.calculateCropDimensions (service) and          *)
(* calculateAutoCrop (editor component)                                      *)

\* The code computes in doubles.  Here every coordinate is an exact rational:
\* a rectangle is [kind, originX, originY, width, height, den], its four
\* numbers being numerators over the common denominator den.  The rounding of
\* the last bit of a double is not modelled.

\* this.aspectRatios, width : height in halves of a unit (letter is 8.5 : 11)
AspectRatios ==
    [ letter |-> [width |-> 17, height |-> 22],
      a4     |-> [width |-> 420, height |-> 594],
      legal  |-> [width |-> 17, height |-> 28],
      square |-> [width |-> 2, height |-> 2] ]

\* the object literal returned: { originX, originY, width, height }
Rect(originX, originY, w, h, den) ==
    [kind |-> "rect", originX |-> originX, originY |-> originY,
     width |-> w, height |-> h, den |-> den]

\* faulty variant of CalculateCropDimensions: the ratio test inverted
CropDimensionsInverted(imageDimensions, aspectRatio) ==
    LET imgWidth == imageDimensions.width
        imgHeight == imageDimensions.height
        ratio == AspectRatios[aspectRatio]
    IN IF imgWidth * ratio.height < ratio.width * imgHeight
       THEN Rect(imgWidth * ratio.height - imgHeight * ratio.width, 0,
                 2 * imgHeight * ratio.width, 2 * ratio.height * imgHeight,
                 2 * ratio.height)
       ELSE Rect(0, imgHeight * ratio.width - imgWidth * ratio.height,
                 2 * ratio.width * imgWidth, 2 * imgWidth * ratio.height,
                 2 * ratio.width)

\* calculateCropDimensions(imageDimensions, aspectRatio)
\*   wider than the target:  cropHeight = imgHeight, cropWidth = cropHeight * targetRatio,
\*                           over the denominator 2 * ratio.height
\*   otherwise:              cropWidth = imgWidth, cropHeight = cropWidth / targetRatio,
\*                           over the denominator 2 * ratio.width
\*   originX = (imgWidth - cropWidth) / 2, originY = (imgHeight - cropHeight) / 2
CalculateCropDimensions(imageDimensions, aspectRatio) ==
    IF aspectRatio = "free" THEN None
    ELSE IF aspectRatio \notin DOMAIN AspectRatios THEN None
    ELSE
    LET imgWidth == imageDimensions.width
        imgHeight == imageDimensions.height
        ratio == AspectRatios[aspectRatio]
    IN IF imgWidth * ratio.height > ratio.width * imgHeight
       THEN Rect(imgWidth * ratio.height - imgHeight * ratio.width, 0,
                 2 * imgHeight * ratio.width, 2 * ratio.height * imgHeight,
                 2 * ratio.height)
       ELSE Rect(0, imgHeight * ratio.width - imgWidth * ratio.height,
                 2 * ratio.width * imgWidth, 2 * imgWidth * ratio.height,
                 2 * ratio.width)

\* faulty variant of EffectiveDims: the dimensions never swapped
EffectiveDimsUnswapped(dims, rotation) == dims

\* if (currentEdits.rotation % 180 !== 0) effectiveDims = { width: dims.height, height: dims.width }
EffectiveDims(dims, rotation) ==
    IF rotation % 180 # 0
    THEN [width |-> dims.height, height |-> dims.width]
    ELSE dims

\* if (cropX < 0) cropX = 0; if (cropY < 0) cropY = 0
ClampOrigin(origin) == IF origin < 0 THEN 0 ELSE origin

\* faulty variant of ClampSize: the size left as it is
ClampSizeNone(origin, size, limit) == size

\* if (cropX + cropWidth > imgW) cropWidth = imgW - cropX (same for Y)
ClampSize(origin, size, limit) ==
    IF origin + size > limit THEN limit - origin ELSE size

\* the guide-frame branch of calculateAutoCrop, in three steps.  scale is
\* sN / sD (imgH / screenHeight when the image is wider than the screen,
\* imgW / screenWidth otherwise) and every value is a numerator over
\* den = 20 sD.
\*
\* the guide mapped to image coordinates:
\*   cropWidth = width * scale, cropX = offsetX + x * scale (same for Y)
MappedGuide(effectiveDims, guideFrame) ==
    LET imgW == effectiveDims.width
        imgH == effectiveDims.height
        screenWidth == guideFrame.screenWidth
        screenHeight == guideFrame.screenHeight
        wider == imgW * screenHeight > screenWidth * imgH
        sN == IF wider THEN imgH ELSE imgW
        sD == IF wider THEN screenHeight ELSE screenWidth
        \* offsetX = (imgW - screenWidth * scale) / 2 or 0
        offsetX == IF wider THEN 10 * (imgW * sD - screenWidth * sN) ELSE 0
        \* offsetY = 0 or (imgH - screenHeight * scale) / 2
        offsetY == IF wider THEN 0 ELSE 10 * (imgH * sD - screenHeight * sN)
    IN Rect(offsetX + 20 * guideFrame.x * sN, offsetY + 20 * guideFrame.y * sN,
            20 * guideFrame.width * sN, 20 * guideFrame.height * sN, 20 * sD)

\* faulty variant of BufferedGuide: the origin not moved back
BufferedGuideUncentred(mapped) ==
    Rect(mapped.originX, mapped.originY,
         (mapped.width \div 10) * 11, (mapped.height \div 10) * 11, mapped.den)

\* newWidth = cropWidth * bufferScale, bufferScale = 1.1;
\* cropX -= (newWidth - cropWidth) / 2 (same for Y).  The numerators of the
\* mapped sizes are multiples of 20, so both divisions are exact.
BufferedGuide(mapped) ==
    LET newWidth == (mapped.width \div 10) * 11
        newHeight == (mapped.height \div 10) * 11
    IN Rect(mapped.originX - (newWidth - mapped.width) \div 2,
            mapped.originY - (newHeight - mapped.height) \div 2,
            newWidth, newHeight, mapped.den)

\* the buffered rectangle clamped to the image
GuideCrop(effectiveDims, guideFrame) ==
    LET buffered == BufferedGuide(MappedGuide(effectiveDims, guideFrame))
        den == buffered.den
        clampedX == ClampOrigin(buffered.originX)
        clampedY == ClampOrigin(buffered.originY)
        clampedWidth == ClampSize(clampedX, buffered.width, effectiveDims.width * den)
        clampedHeight == ClampSize(clampedY, buffered.height, effectiveDims.height * den)
    IN Rect(clampedX, clampedY, clampedWidth, clampedHeight, den)

\* calculateAutoCrop(dims, currentEdits)
CalculateAutoCrop(dims, currentEdits) ==
    IF currentEdits.autoDetectCrop = FALSE THEN None
    ELSE IF currentEdits.guideFrame # None
         THEN GuideCrop(EffectiveDims(dims, currentEdits.rotation),
                        currentEdits.guideFrame)
         ELSE CalculateCropDimensions(EffectiveDims(dims, currentEdits.rotation),
                                      "letter")

\* image sizes tried: every small size and four camera sizes
ImageSizes ==
    { [width |-> w, height |-> h] : w \in 1..MaxSide, h \in 1..MaxSide }
        \cup { [width |-> 3000, height |-> 4000], [width |-> 4000, height |-> 3000],
               [width |-> 850, height |-> 1100], [width |-> 1080, height |-> 1080] }

\* screens tried: one of the size of the image, a portrait and a landscape one
Screens(dims) ==
    { [width |-> dims.width, height |-> dims.height],
      [width |-> 390, height |-> 844], [width |-> 844, height |-> 390] }

\* guide frames on a screen: positions from one step before the screen to one
\* step past it, sizes from one step to the whole screen
GuideFrames(view) ==
    { [kind |-> "guide", x |-> (kx * view.width) \div GuideSteps,
       y |-> (ky * view.height) \div GuideSteps,
       width |-> (kw * view.width) \div GuideSteps,
       height |-> (kh * view.height) \div GuideSteps,
       screenWidth |-> view.width, screenHeight |-> view.height] :
         kx \in (-1)..(GuideSteps + 1), ky \in (-1)..(GuideSteps + 1),
         kw \in 1..GuideSteps, kh \in 1..GuideSteps }

\* the edits calculateAutoCrop is called with
CropEdits(dims) ==
    { [rotation |-> rot, autoDetectCrop |-> auto, guideFrame |-> gf] :
        rot \in { 0, 90, -90, 180, -180, 270 }, auto \in BOOLEAN,
        gf \in { None } \cup UNION { GuideFrames(sc) : sc \in Screens(dims) } }

CropInit ==
    /\ PdfIdle
    /\ SanIdle
    /\ ScanIdle
    /\ ApplyIdle
    /\ CamIdle
    /\ EditorIdle
    /\ AppIdle
    /\ ProcIdle
    /\ cropDims \in ImageSizes
    /\ cropEdits \in CropEdits(cropDims)
    /\ cropResult = None
    /\ cropPc = "call"

AutoCrop ==
    /\ cropPc = "call"
    /\ cropResult' = CalculateAutoCrop(cropDims, cropEdits)
    /\ cropPc' = "done"
    /\ UNCHANGED <<cropDims, cropEdits, editVars, appVars, procVars, pdfVars, sanVars, scanVars, applyVars, camVars>>

CropNext == AutoCrop

SpecCrop == CropInit /\ [][CropNext]_vars

-----------------------------------------------------------------------------
(* The ImageEditor component: its editing state and the handlers that set it *)

\* JavaScript's a % n for n > 0: the result has the sign of a
JsRem(a, n) == IF a >= 0 THEN a % n ELSE 0 - ((0 - a) % n)

\* const ASPECT_RATIO_KEYS
ASPECT_RATIO_KEYS == { "letter", "a4", "legal", "square", "free" }

\* imageEditor.validateEdits(edits): the rotation and the crop tests
ValidateEdits(edits) ==
    /\ ~(edits.rotation < -180 \/ edits.rotation > 180)
    /\ edits.crop # None =>
         ~(edits.crop.originX < 0 \/ edits.crop.originY < 0
             \/ edits.crop.width <= 0 \/ edits.crop.height <= 0)

\* the crop lies within an image of the given size
CropWithin(crop, dims) ==
    /\ crop.originX >= 0
    /\ crop.originY >= 0
    /\ crop.width > 0
    /\ crop.height > 0
    /\ crop.originX + crop.width <= dims.width * crop.den
    /\ crop.originY + crop.height <= dims.height * crop.den

\* the size of the image imageEditor.applyEdits produces from the image at
\* imageUri: rotated, then cropped (to whole pixels)
PreviewDims(edits, dims) ==
    LET rotated == EffectiveDims(dims, edits.rotation)
    IN IF edits.crop = None THEN rotated
       ELSE [width |-> edits.crop.width \div edits.crop.den,
             height |-> edits.crop.height \div edits.crop.den]

\* the sizes an onLoad event of the preview image can report: the image at
\* imageUri (the first preview) or the preview applyEdits made of the edits
LoadedDims(edits, dims) ==
    { dims } \cup
    IF edits.crop = None
    THEN { PreviewDims(edits, dims) }
    ELSE IF /\ CropWithin(edits.crop, EffectiveDims(dims, edits.rotation))
            /\ edits.crop.width >= edits.crop.den
            /\ edits.crop.height >= edits.crop.den
         THEN { PreviewDims(edits, dims) }
         ELSE { }

\* the images edited
EditorImages ==
    { [width |-> 3000, height |-> 4000], [width |-> 4000, height |-> 3000],
      [width |-> 1080, height |-> 1080] }

\* the guide frames the camera screen passes: on the screen
CameraGuides ==
    { gf \in GuideFrames([width |-> 390, height |-> 844]) :
        /\ gf.x >= 0
        /\ gf.y >= 0
        /\ gf.x + gf.width <= gf.screenWidth
        /\ gf.y + gf.height <= gf.screenHeight }

EditorInit ==
    /\ PdfIdle
    /\ SanIdle
    /\ ScanIdle
    /\ ApplyIdle
    /\ CamIdle
    /\ CropIdle
    /\ AppIdle
    /\ ProcIdle
    /\ imageDims \in EditorImages
    /\ initialEdits \in { [autoDetectCrop |-> auto, guideFrame |-> gf] :
                            auto \in BOOLEAN, gf \in { None } \cup CameraGuides }
    /\ editing = [rotation |-> 0, crop |-> None,
                  autoDetectCrop |-> initialEdits.autoDetectCrop,
                  guideFrame |-> initialEdits.guideFrame]
    /\ imageDimensionsRef = [width |-> 0, height |-> 0]
    /\ selectedAspectRatio = "letter"
    /\ editorPc = "init"
    /\ loads = 0

\* the init effect: getImageDimensions resolves (or throws), the auto crop is
\* computed, setEditing(startEdits), setSelectedAspectRatio
InitEffect ==
    /\ editorPc = "init"
    /\ \E resolved \in BOOLEAN :
         LET startEdits == [rotation |-> 0, crop |-> None,
                            autoDetectCrop |-> initialEdits.autoDetectCrop,
                            guideFrame |-> initialEdits.guideFrame]
             autoCrop == IF resolved THEN CalculateAutoCrop(imageDims, startEdits)
                         ELSE None
         IN /\ imageDimensionsRef' = IF resolved THEN imageDims ELSE imageDimensionsRef
            /\ editing' = [startEdits EXCEPT !.crop = autoCrop]
            /\ selectedAspectRatio' = IF autoCrop # None THEN "letter" ELSE "free"
    /\ editorPc' = "ready"
    /\ UNCHANGED <<imageDims, initialEdits, loads, cropVars, appVars, procVars, pdfVars, sanVars, scanVars, applyVars, camVars>>

\* handleImageLoad(event)
HandleImageLoad ==
    /\ editorPc = "ready"
    /\ loads < MaxLoads
    /\ loads' = loads + 1
    /\ \E dims \in LoadedDims(editing, imageDims) :
         /\ imageDimensionsRef' = dims
         /\ LET autoCrop == CalculateAutoCrop(dims, editing)
            IN IF editing.crop # None \/ editing.autoDetectCrop = FALSE
                  \/ autoCrop = None
               THEN UNCHANGED <<editing, selectedAspectRatio>>
               ELSE /\ editing' = [editing EXCEPT !.crop = autoCrop]
                    /\ selectedAspectRatio' = "letter"
    /\ UNCHANGED <<imageDims, initialEdits, editorPc, cropVars, appVars, procVars, pdfVars, sanVars, scanVars, applyVars, camVars>>

\* rotateImage(degrees), from the two rotate buttons
RotateImage ==
    /\ editorPc = "ready"
    /\ \E degrees \in { -90, 90 } :
         editing' = [editing EXCEPT !.rotation = JsRem(editing.rotation + degrees, 360)]
    /\ UNCHANGED <<imageDimensionsRef, selectedAspectRatio, imageDims, initialEdits,
                   editorPc, loads, cropVars, appVars, procVars, pdfVars, sanVars, scanVars, applyVars, camVars>>

\* setAspectRatio(ratio)
SetAspectRatio ==
    /\ editorPc = "ready"
    /\ \E ratio \in ASPECT_RATIO_KEYS :
         /\ selectedAspectRatio' = ratio
         /\ LET dimensions == EffectiveDims(imageDimensionsRef, editing.rotation)
                cropDimensions == CalculateCropDimensions(dimensions, ratio)
            IN editing' =
                 IF ratio = "free" THEN [editing EXCEPT !.crop = None]
                 ELSE IF dimensions.width > 0 /\ cropDimensions # None
                      THEN [editing EXCEPT !.crop = cropDimensions]
                      ELSE editing
    /\ UNCHANGED <<imageDimensionsRef, imageDims, initialEdits, editorPc, loads,
                   cropVars, appVars, procVars, pdfVars, sanVars, scanVars, applyVars, camVars>>

\* handleReset(): the edits are replaced by { rotation: 0, crop: null,
\* scanMode: true } (no autoDetectCrop, which is then not === false, and no
\* guideFrame), then the letter crop of imageDimensionsRef.current is set
HandleReset ==
    /\ editorPc = "ready"
    /\ LET cleared == [rotation |-> 0, crop |-> None, autoDetectCrop |-> TRUE,
                       guideFrame |-> None]
           cropDimensions == CalculateCropDimensions(imageDimensionsRef, "letter")
       IN editing' = IF imageDimensionsRef.width > 0 /\ cropDimensions # None
                     THEN [cleared EXCEPT !.crop = cropDimensions]
                     ELSE cleared
    /\ selectedAspectRatio' = "letter"
    /\ UNCHANGED <<imageDimensionsRef, imageDims, initialEdits, editorPc, loads,
                   cropVars, appVars, procVars, pdfVars, sanVars, scanVars, applyVars, camVars>>

EditorNext ==
    \/ InitEffect
    \/ HandleImageLoad
    \/ RotateImage
    \/ SetAspectRatio
    \/ HandleReset

SpecEditor == EditorInit /\ [][EditorNext]_vars

-----------------------------------------------------------------------------
(* App: the captures state and the handlers that set it *)

\* faulty variant of AtCapacity: one entry too many let in
AtCapacityOffByOne(prev) == Len(prev) > MAX_PAGES

\* if (prev.length >= MAX_PAGES) return prev
AtCapacity(prev) == Len(prev) >= MAX_PAGES

\* clone.splice(fromIndex, 1) then clone.splice(targetIndex, 0, moved), with
\* 1-based positions
Move(list, from, to) ==
    LET rest == [k \in 1..(Len(list) - 1) |-> IF k < from THEN list[k] ELSE list[k + 1]]
    IN [k \in 1..Len(list) |->
          IF k < to THEN rest[k] ELSE IF k = to THEN list[from] ELSE rest[k - 1]]

\* what a handler did: its name, whether the list was full before it, and
\* whether it left the list as it was
Did(op, before, after) ==
    [op |-> op, full |-> Len(before) >= MAX_PAGES, same |-> after = before]

AppInit ==
    /\ PdfIdle
    /\ SanIdle
    /\ ScanIdle
    /\ ApplyIdle
    /\ CamIdle
    /\ CropIdle
    /\ EditorIdle
    /\ ProcIdle
    /\ appCaptures = <<>>
    /\ addCalls = 0
    /\ lastOp = Did("none", <<>>, <<>>)

\* onAddCapture(cap): the id given to the capture is the number of the call
OnAddCapture ==
    /\ addCalls < MaxAdds
    /\ addCalls' = addCalls + 1
    /\ appCaptures' = IF AtCapacity(appCaptures) THEN appCaptures
                      ELSE Append(appCaptures, addCalls + 1)
    /\ lastOp' = Did("add", appCaptures, appCaptures')
    /\ UNCHANGED <<cropVars, editVars, procVars, pdfVars, sanVars, scanVars, applyVars, camVars>>

\* onRemoveCapture(id) of the camera screen, onRemove(id) of the page review
OnRemoveCapture ==
    /\ \E id \in 1..MaxAdds :
         appCaptures' = SelectSeq(appCaptures, LAMBDA c : c # id)
    /\ lastOp' = Did("remove", appCaptures, appCaptures')
    /\ UNCHANGED <<addCalls, cropVars, editVars, procVars, pdfVars, sanVars, scanVars, applyVars, camVars>>

\* faulty variant of Reorder: the moved capture written over its neighbour
ReorderOverwrites(prev, fromIndex, direction) ==
    LET targetIndex == fromIndex + direction
    IN IF targetIndex < 0 \/ targetIndex >= Len(prev)
       THEN prev
       ELSE [prev EXCEPT ![targetIndex + 1] = prev[fromIndex + 1]]

\* the updater of onReorder: if (targetIndex < 0 || targetIndex >= prev.length)
\* return prev; otherwise the clone with the capture moved
Reorder(prev, fromIndex, direction) ==
    LET targetIndex == fromIndex + direction
    IN IF targetIndex < 0 \/ targetIndex >= Len(prev)
       THEN prev
       ELSE Move(prev, fromIndex + 1, targetIndex + 1)

\* onReorder(fromIndex, direction), from the move up / move down controls of
\* the page review, which pass the index of a card of the list
OnReorder ==
    /\ \E fromIndex \in 0..(Len(appCaptures) - 1), direction \in { -1, 1 } :
         /\ appCaptures' = Reorder(appCaptures, fromIndex, direction)
         /\ lastOp' = [op |-> "reorder", full |-> Len(appCaptures) >= MAX_PAGES,
                       same |-> appCaptures' = appCaptures,
                       fromIndex |-> fromIndex, direction |-> direction]
    /\ UNCHANGED <<addCalls, cropVars, editVars, procVars, pdfVars, sanVars, scanVars, applyVars, camVars>>

\* onStartOver(): setCaptures([])
OnStartOver ==
    /\ appCaptures' = <<>>
    /\ lastOp' = Did("startOver", appCaptures, appCaptures')
    /\ UNCHANGED <<addCalls, cropVars, editVars, procVars, pdfVars, sanVars, scanVars, applyVars, camVars>>

AppNext ==
    \/ OnAddCapture
    \/ OnRemoveCapture
    \/ OnReorder
    \/ OnStartOver

SpecApp == AppInit /\ [][AppNext]_vars

-----------------------------------------------------------------------------
(* The Processing screen: its effect, the work it starts, and the App's      *)
(* onAnalyzed and onBack                                                     *)

\* A run is one execution of the effect: [pc, cancelled, abandoned].  pc is
\* the await work() is at ("pdf", "convert", "analyze") or "done" / "failed";
\* cancelled is the effect's let cancelled; abandoned records that the cleanup
\* ran while the work was still in flight.

InFlight(run) == run.pc \in { "pdf", "convert", "analyze" }

\* faulty variant of Cancelled: the flag never read
CancelledIgnored(run) == FALSE

\* the test of cancelled before onAnalyzed and before setError
Cancelled(run) == run.cancelled

\* the effect runs: let cancelled = false; work()
StartRun(list) ==
    Append(list, [pc |-> "pdf", cancelled |-> FALSE, abandoned |-> FALSE])

\* the cleanup of the run in effect: cancelled = true
Cleanup(list) ==
    IF list = <<>> THEN list
    ELSE [list EXCEPT ![Len(list)] =
            [pc |-> @.pc, cancelled |-> TRUE,
             abandoned |-> @.abandoned \/ (~@.cancelled /\ InFlight(@))]]

ProcInit ==
    /\ PdfIdle
    /\ SanIdle
    /\ ScanIdle
    /\ ApplyIdle
    /\ CamIdle
    /\ CropIdle
    /\ EditorIdle
    /\ AppIdle
    /\ screen = "PageReview"
    /\ analysis = None
    /\ procError = None
    /\ runs = <<>>
    /\ analyzedBy = { }

\* onContinue of the page review (there are captures): go('Processing'); the
\* screen mounts with error null and its effect runs
OnContinue ==
    /\ screen = "PageReview"
    /\ Len(runs) < MaxEffects
    /\ screen' = "Processing"
    /\ procError' = None
    /\ runs' = StartRun(runs)
    /\ UNCHANGED <<analysis, analyzedBy, appVars, cropVars, editVars, pdfVars, sanVars, scanVars, applyVars, camVars>>

\* the App renders again while the screen is shown (a state of the App was
\* set): onAnalyzed is a new function, so the effect is cleaned up and runs
\* again
Rerender ==
    /\ screen = "Processing"
    /\ Len(runs) < MaxEffects
    /\ runs' = StartRun(Cleanup(runs))
    /\ UNCHANGED <<screen, analysis, procError, analyzedBy, appVars, cropVars, editVars,
                   pdfVars, sanVars, scanVars, applyVars, camVars>>

\* onBack (Cancel or Back): go('PageReview'); the screen unmounts
OnBack ==
    /\ screen = "Processing"
    /\ screen' = "PageReview"
    /\ runs' = Cleanup(runs)
    /\ UNCHANGED <<analysis, procError, analyzedBy, appVars, cropVars, editVars,
                   pdfVars, sanVars, scanVars, applyVars, camVars>>

\* onBack of the Confirm screen: go('Processing'); the screen mounts again
ConfirmBack ==
    /\ screen = "Confirm"
    /\ Len(runs) < MaxEffects
    /\ screen' = "Processing"
    /\ procError' = None
    /\ runs' = StartRun(runs)
    /\ UNCHANGED <<analysis, analyzedBy, appVars, cropVars, editVars, pdfVars, sanVars, scanVars, applyVars, camVars>>

\* generatePdfFromImages or convertPdfToDataUri resolves in run n
WorkStep ==
    /\ \E n \in 1..Len(runs) :
         /\ runs[n].pc \in { "pdf", "convert" }
         /\ runs' = [runs EXCEPT ![n].pc = IF @ = "pdf" THEN "convert" ELSE "analyze"]
    /\ UNCHANGED <<screen, analysis, procError, analyzedBy, appVars, cropVars, editVars,
                   pdfVars, sanVars, scanVars, applyVars, camVars>>

\* an await of run n rejects: catch (e) { if (!cancelled) setError(...) }
WorkFails ==
    /\ \E n \in 1..Len(runs) :
         /\ InFlight(runs[n])
         /\ runs' = [runs EXCEPT ![n].pc = "failed"]
         /\ procError' = IF Cancelled(runs[n]) THEN procError
                         ELSE [kind |-> "error", by |-> n]
    /\ UNCHANGED <<screen, analysis, analyzedBy, appVars, cropVars, editVars,
                   pdfVars, sanVars, scanVars, applyVars, camVars>>

\* analyzeDocument resolves in run n: if (!cancelled)
\* onAnalyzed({ ...res, pdfDataUri, pageCount }), which is setAnalysis(res);
\* go('Confirm'), and the screen unmounts.  by stands for the fields of res,
\* pdfDataUri is the data URI run n converted
WorkDone ==
    /\ \E n \in 1..Len(runs) :
         /\ runs[n].pc = "analyze"
         /\ IF Cancelled(runs[n])
            THEN /\ runs' = [runs EXCEPT ![n].pc = "done"]
                 /\ UNCHANGED <<screen, analysis, analyzedBy>>
            ELSE /\ analyzedBy' = analyzedBy \cup { n }
                 /\ analysis' = [kind |-> "analysis", by |-> n,
                                 pdfDataUri |-> [kind |-> "dataUri", by |-> n]]
                 /\ screen' = "Confirm"
                 /\ runs' = IF screen = "Processing"
                            THEN Cleanup([runs EXCEPT ![n].pc = "done"])
                            ELSE [runs EXCEPT ![n].pc = "done"]
    /\ UNCHANGED <<procError, appVars, cropVars, editVars, pdfVars, sanVars, scanVars, applyVars, camVars>>

ProcNext ==
    \/ OnContinue
    \/ Rerender
    \/ OnBack
    \/ ConfirmBack
    \/ WorkStep
    \/ WorkFails
    \/ WorkDone

SpecProc == ProcInit /\ [][ProcNext]_vars

-----------------------------------------------------------------------------
(* The App's screens: the callbacks it hands to each screen, over the        *)
(* captures and the Processing runs above                                    *)

NavInit ==
    /\ PdfIdle
    /\ SanIdle
    /\ ScanIdle
    /\ ApplyIdle
    /\ CamIdle
    /\ CropIdle
    /\ EditorIdle
    /\ AppIdle
    /\ ProcIdle

\* the callbacks that are go(name) and nothing else: onStartCamera,
\* onTestGoogle, onBack of the camera, onAddMore and onBack of the page
\* review, onBack of the upload and of the settings
GoLinks ==
    { <<"Home", "Camera">>, <<"Home", "Settings">>, <<"Camera", "Settings">>,
      <<"Camera", "Home">>, <<"PageReview", "Camera">>, <<"Upload", "Confirm">>,
      <<"Settings", "Home">> }

Go ==
    /\ \E link \in GoLinks :
         /\ screen = link[1]
         /\ screen' = link[2]
    /\ UNCHANGED <<analysis, procError, runs, analyzedBy, appVars, cropVars, editVars,
                   pdfVars, sanVars, scanVars, applyVars, camVars>>

\* onRequestReview: the review button is rendered when captures.length > 0
OnRequestReview ==
    /\ screen = "Camera"
    /\ Len(appCaptures) > 0
    /\ screen' = "PageReview"
    /\ UNCHANGED <<analysis, procError, runs, analyzedBy, appVars, cropVars, editVars,
                   pdfVars, sanVars, scanVars, applyVars, camVars>>

\* onStartOver of the page review: setCaptures([]); setAnalysis(null);
\* go('Camera')
StartOver ==
    /\ screen = "PageReview"
    /\ appCaptures' = <<>>
    /\ lastOp' = Did("startOver", appCaptures, appCaptures')
    /\ analysis' = None
    /\ screen' = "Camera"
    /\ UNCHANGED <<addCalls, procError, runs, analyzedBy, cropVars, editVars,
                   pdfVars, sanVars, scanVars, applyVars, camVars>>

\* faulty variant of ConfirmEdited: the fields of initial not carried over
ConfirmEditedOnly(initial, confirmedPath) ==
    [kind |-> "analysis", confirmedPath |-> confirmedPath]

\* the object the Confirm screen passes to onConfirm:
\* { ...initial, title, category, year, confirmedPath: folderPath };
\* confirmedPath stands for the four edited fields
ConfirmEdited(initial, confirmedPath) ==
    [f \in DOMAIN initial \cup { "confirmedPath" } |->
        IF f = "confirmedPath" THEN confirmedPath ELSE initial[f]]

\* onConfirm(edited): setAnalysis(edited); go('Upload')
OnConfirm ==
    /\ screen = "Confirm"
    /\ \E folderPath \in { "", "Taxes/2024" } :
         analysis' = ConfirmEdited(analysis, folderPath)
    /\ screen' = "Upload"
    /\ UNCHANGED <<procError, runs, analyzedBy, appVars, cropVars, editVars,
                   pdfVars, sanVars, scanVars, applyVars, camVars>>

\* onDone of the upload: setCaptures([]); setAnalysis(null); go('Home')
OnDone ==
    /\ screen = "Upload"
    /\ appCaptures' = <<>>
    /\ lastOp' = Did("done", appCaptures, appCaptures')
    /\ analysis' = None
    /\ screen' = "Home"
    /\ UNCHANGED <<addCalls, procError, runs, analyzedBy, cropVars, editVars,
                   pdfVars, sanVars, scanVars, applyVars, camVars>>

\* the user signs out: the screens unmount (the cleanup of the Processing
\* effect runs) and the effect on user sets screen 'Home', captures [],
\* analysis null
SignOut ==
    /\ appCaptures' = <<>>
    /\ lastOp' = Did("signOut", appCaptures, appCaptures')
    /\ analysis' = None
    /\ screen' = "Home"
    /\ runs' = IF screen = "Processing" THEN Cleanup(runs) ELSE runs
    /\ UNCHANGED <<addCalls, procError, analyzedBy, cropVars, editVars,
                   pdfVars, sanVars, scanVars, applyVars, camVars>>

\* each screen's callbacks are reachable while the screen is shown; the
\* awaits of a run resolve at any time
NavNext ==
    \/ Go
    \/ OnRequestReview
    \/ (screen = "Camera" /\ addCalls < MaxNavAdds /\ OnAddCapture)
    \/ (screen \in { "Camera", "PageReview" } /\ OnRemoveCapture)
    \/ (screen = "PageReview" /\ OnReorder)
    \/ StartOver
    \/ (Len(appCaptures) # 0 /\ OnContinue)
    \/ Rerender
    \/ OnBack
    \/ WorkStep
    \/ WorkFails
    \/ WorkDone
    \/ ConfirmBack
    \/ OnConfirm
    \/ OnDone
    \/ SignOut

SpecNav == NavInit /\ [][NavNext]_vars

-----------------------------------------------------------------------------
(* ImageEditor.applyEdits(uri, edits, options), the scan filter it calls, and *)
(* the first pass of buildScanReadyAsset over the image it returned           *)

\* An operation on the image is [op, arg]: "rotate" (degrees), "crop",
\* "flip horizontal", "flip vertical", "resize" (width), "compress" (quality
\* in hundredths), "filter" (decode, applyScanMatrix, encode).  opLog holds the
\* operations made on the image so far, in order.

Op(op, arg) == [op |-> op, arg |-> arg]

\* faulty variant of EditActions: the crop pushed before the rotation
EditActionsCropFirst(edits) ==
    (IF edits.crop THEN <<Op("crop", 0)>> ELSE <<>>)
        \o (IF edits.rotation # 0 THEN <<Op("rotate", edits.rotation)>> ELSE <<>>)
        \o (IF edits.flipHorizontal THEN <<Op("flip horizontal", 0)>> ELSE <<>>)
        \o (IF edits.flipVertical THEN <<Op("flip vertical", 0)>> ELSE <<>>)

\* const actions = []; the four conditional actions.push calls
EditActions(edits) ==
    (IF edits.rotation # 0 THEN <<Op("rotate", edits.rotation)>> ELSE <<>>)
        \o (IF edits.crop THEN <<Op("crop", 0)>> ELSE <<>>)
        \o (IF edits.flipHorizontal THEN <<Op("flip horizontal", 0)>> ELSE <<>>)
        \o (IF edits.flipVertical THEN <<Op("flip vertical", 0)>> ELSE <<>>)

\* what the scan filter can meet: success, or one of the failures it handles
\* (image load error, canvas error, toBlob without a blob, empty read, failed
\* decode, an exception of encode or of the file write)
FilterOutcomes ==
    { "filtered", "load failed", "canvas failed", "no blob", "empty read",
      "decode failed", "threw" }

ApplyInit ==
    /\ PdfIdle
    /\ SanIdle
    /\ ScanIdle
    /\ CropIdle
    /\ EditorIdle
    /\ AppIdle
    /\ ProcIdle
    /\ CamIdle
    /\ applyArgs \in { [uri |-> u,
                        edits |-> [rotation |-> rot, crop |-> cr, flipHorizontal |-> fh,
                                   flipVertical |-> fv, scanMode |-> sm],
                        skipFilter |-> sk] :
                         u \in BOOLEAN, rot \in { 0, 90, -90, 180 }, cr \in BOOLEAN,
                         fh \in BOOLEAN, fv \in BOOLEAN, sm \in BOOLEAN, sk \in BOOLEAN }
    /\ applyPc = "call"
    /\ opLog = <<>>
    /\ applyOut = None

\* applyEdits up to the return of manipulateAsync: the uri test, the actions,
\* the compress setting, the call (which may reject: catch and rethrow), and
\* the test of scanMode and skipFilter
Manipulate ==
    /\ applyPc = "call"
    /\ \E resolved \in BOOLEAN :
         IF ~applyArgs.uri
         THEN /\ applyPc' = "failed"
              /\ applyOut' = [kind |-> "error", message |-> "Image URI is required"]
              /\ UNCHANGED opLog
         ELSE IF ~resolved
         THEN /\ applyPc' = "failed"
              /\ applyOut' = [kind |-> "error", message |-> "Failed to apply edits"]
              /\ UNCHANGED opLog
         ELSE /\ opLog' = EditActions(applyArgs.edits)
                    \o <<Op("compress", IF applyArgs.edits.scanMode THEN 95 ELSE 90)>>
              /\ IF applyArgs.edits.scanMode /\ ~applyArgs.skipFilter
                 THEN /\ applyPc' = "filter"
                      /\ UNCHANGED applyOut
                 ELSE /\ applyPc' = "done"
                      /\ applyOut' = [kind |-> "uri", filtered |-> FALSE]
    /\ UNCHANGED <<applyArgs, cropVars, editVars, appVars, procVars, camVars,
                   pdfVars, sanVars, scanVars>>

\* applyScanFilter(result.uri): the filtered image, or on any failure the
\* uri it was given; applyEdits returns what it returns
ScanFilter ==
    /\ applyPc = "filter"
    /\ \E outcome \in FilterOutcomes :
         IF outcome = "filtered"
         THEN /\ opLog' = Append(opLog, Op("filter", 0))
              /\ applyOut' = [kind |-> "uri", filtered |-> TRUE]
         ELSE /\ UNCHANGED opLog
              /\ applyOut' = [kind |-> "uri", filtered |-> FALSE]
    /\ applyPc' = "done"
    /\ UNCHANGED <<applyArgs, cropVars, editVars, appVars, procVars, camVars,
                   pdfVars, sanVars, scanVars>>

\* the image returned becomes the uri of a capture; buildScanReadyAsset's
\* first manipulateAsync call on it: resize to width, compress
FirstAttempt ==
    /\ applyPc = "done"
    /\ opLog' = opLog \o <<Op("resize", SCAN_TARGET_WIDTH),
                           Op("compress", SCAN_INITIAL_COMPRESSION)>>
    /\ applyPc' = "prepared"
    /\ UNCHANGED <<applyArgs, applyOut, cropVars, editVars, appVars, procVars, camVars,
                   pdfVars, sanVars, scanVars>>

ApplyNext ==
    \/ Manipulate
    \/ ScanFilter
    \/ FirstAttempt

SpecApply == ApplyInit /\ [][ApplyNext]_vars

-----------------------------------------------------------------------------
(* The Camera screen with the editor it opens on each photograph.  A         *)
(* photograph is known by its number; the editor is open while               *)
(* pendingCapture is set.                                                    *)

CamInit ==
    /\ PdfIdle
    /\ SanIdle
    /\ ScanIdle
    /\ ApplyIdle
    /\ CropIdle
    /\ EditorIdle
    /\ AppIdle
    /\ ProcIdle
    /\ CamIdle

\* handleCapture: refused at the page limit; the shutter is behind the
\* editor's modal while the editor is open.  setPendingCapture(captureData),
\* setEditingImage(photo.uri) mount a new editor
HandleCapture ==
    /\ pendingCapture = 0
    /\ photosTaken < MaxPhotos
    /\ Len(appCaptures) < MAX_PAGES
    /\ photosTaken' = photosTaken + 1
    /\ pendingCapture' = photosTaken + 1
    /\ editorProcessing' = FALSE
    /\ UNCHANGED <<saving, addedFor, appVars, cropVars, editVars, procVars, applyVars,
                   pdfVars, sanVars, scanVars>>

\* ImageEditor.handleSave up to its await: Save is disabled while processing
HandleSave ==
    /\ pendingCapture # 0
    /\ ~editorProcessing
    /\ editorProcessing' = TRUE
    /\ saving' = saving \cup { [photo |-> pendingCapture, pc |-> "applyEdits"] }
    /\ UNCHANGED <<photosTaken, pendingCapture, addedFor, appVars, cropVars, editVars,
                   procVars, applyVars, pdfVars, sanVars, scanVars>>

\* applyEdits resolves: onSave({ uri: finalUri, edits }) enters handleEditSave,
\* which awaits buildThumbnail(uri)
SaveResolves ==
    /\ \E s \in saving :
         /\ s.pc = "applyEdits"
         /\ saving' = (saving \ { s }) \cup { [s EXCEPT !.pc = "thumbnail"] }
    /\ UNCHANGED <<photosTaken, pendingCapture, editorProcessing, addedFor, appVars,
                   cropVars, editVars, procVars, applyVars, pdfVars, sanVars, scanVars>>

\* applyEdits rejects: setProcessing(false) in the editor that made the call,
\* if it is still the one open
SaveRejects ==
    /\ \E s \in saving :
         /\ s.pc = "applyEdits"
         /\ saving' = saving \ { s }
         /\ editorProcessing' = IF pendingCapture = s.photo THEN FALSE
                                 ELSE editorProcessing
    /\ UNCHANGED <<photosTaken, pendingCapture, addedFor, appVars, cropVars, editVars,
                   procVars, applyVars, pdfVars, sanVars, scanVars>>

\* handleEditSave after buildThumbnail (which never throws):
\* onAddCapture(updatedCapture) with the pendingCapture of its closure,
\* setEditingImage(null), setPendingCapture(null)
HandleEditSave ==
    /\ \E s \in saving :
         /\ s.pc = "thumbnail"
         /\ saving' = saving \ { s }
         /\ addedFor' = IF AtCapacity(appCaptures) THEN addedFor
                         ELSE Append(addedFor, s.photo)
    /\ addCalls' = addCalls + 1
    /\ appCaptures' = IF AtCapacity(appCaptures) THEN appCaptures
                      ELSE Append(appCaptures, addCalls + 1)
    /\ lastOp' = Did("add", appCaptures, appCaptures')
    /\ pendingCapture' = 0
    /\ UNCHANGED <<photosTaken, editorProcessing, cropVars, editVars, procVars,
                   applyVars, pdfVars, sanVars, scanVars>>

\* handleEditCancel, from the Cancel button, which is never disabled:
\* if (pendingCapture) onAddCapture(pendingCapture); both states cleared
HandleEditCancel ==
    /\ pendingCapture # 0
    /\ addCalls' = addCalls + 1
    /\ appCaptures' = IF AtCapacity(appCaptures) THEN appCaptures
                      ELSE Append(appCaptures, addCalls + 1)
    /\ addedFor' = IF AtCapacity(appCaptures) THEN addedFor
                    ELSE Append(addedFor, pendingCapture)
    /\ lastOp' = Did("add", appCaptures, appCaptures')
    /\ pendingCapture' = 0
    /\ UNCHANGED <<photosTaken, editorProcessing, saving, cropVars, editVars, procVars,
                   applyVars, pdfVars, sanVars, scanVars>>

CamNext ==
    \/ HandleCapture
    \/ HandleSave
    \/ SaveResolves
    \/ SaveRejects
    \/ HandleEditSave
    \/ HandleEditCancel

SpecCamera == CamInit /\ [][CamNext]_vars

-----------------------------------------------------------------------------
(* Properties of the budget loop and of document assembly (under SpecPdf) *)

\* the errors thrown while a page is prepared or embedded
PageErrors ==
    { "Missing URI for page", "manipulateAsync failed",
      "Failed to convert page to base64", "Failed to prepare page",
      "embedJpg failed" }

\* the errors of the two precondition checks
PreconditionErrors ==
    { "At least one capture is required", "supports up to 10 pages" }

\* C1: whatever sizes manipulateAsync reports, one buildScanReadyAsset makes at
\* most 4 manipulateAsync calls: the loop is never still running after the
\* fourth call
C1_AtMostFourCalls ==
    /\ manipCalls <= 4
    /\ pc = "attempt" => manipCalls < 4

\* C1 witness: a page returned by the fourth call
C1_FourthCallReturns ==
    /\ pc = "embed"
    /\ manipCalls = 4
    /\ prepared.kind = "image"

\* C2: a page buildScanReadyAsset returns is within the 350 KB budget, or was
\* made at width 1000 and quality 0.40
C2_BudgetOrFloors ==
    prepared.kind = "image" =>
        \/ EstimateByteSize(prepared.base64) <= 350 * 1024
        \/ (prepared.width = 1000 /\ prepared.quality = 40)

\* C2 witness: an over-budget page returned from the floors
C2_OverBudgetAtFloors ==
    /\ prepared.kind = "image"
    /\ EstimateByteSize(prepared.base64) > 350 * 1024
    /\ prepared.width = 1000
    /\ prepared.quality = 40

\* C3: page k of the document embeds the image prepared from captures[k], for
\* every page added so far, and the returned artifact has one page per
\* capture and pageCount equal to the number of captures
C3_PageOrder ==
    /\ docCreated =>
         /\ Len(pages) <= Len(captures.items)
         /\ \A k \in 1..Len(pages) : pages[k] = captures.items[k].uri
    /\ artifact.kind = "artifact" =>
         /\ Len(pages) = Len(captures.items)
         /\ artifact.pageCount = Len(captures.items)
         /\ Len(captures.items) \in 1..10

\* C3 witness: a ten-page document returned
C3_TenPagesAssembled ==
    /\ artifact.kind = "artifact"
    /\ Len(captures.items) = 10
    /\ Len(pages) = 10

\* C4: an input that is not an array, is empty or has more than 10 entries
\* fails before the document is created, before any page is prepared and
\* before any progress callback, and returns nothing; an array of 1..10
\* entries passes both checks
C4_Preconditions ==
    /\ (~captures.isArray \/ Len(captures.items) = 0 \/ Len(captures.items) > 10) =>
         /\ pc \in { "validate", "failed" }
         /\ pc = "failed" => error \in PreconditionErrors
         /\ ~docCreated
         /\ prepStarted = 0
         /\ manipCalls = 0
         /\ pages = <<>>
         /\ progress = <<>>
         /\ writeCalls = 0
         /\ artifact = None
    /\ (captures.isArray /\ Len(captures.items) \in 1..10) =>
         /\ error \notin PreconditionErrors
         /\ pc # "validate" => (pc = "create" \/ docCreated)

\* C4 witness: an array of 11 captures rejected
C4_ElevenRejected ==
    /\ Len(captures.items) = 11
    /\ pc = "failed"
    /\ error = "supports up to 10 pages"

\* C5: once preparing or embedding page k has failed, the function has failed:
\* no later page is prepared, writePdfToCache is not called, and nothing is
\* returned or serialized
C5_PageFailureAborts ==
    error \in PageErrors =>
        /\ pc = "failed"
        /\ prepStarted = i + 1
        /\ Len(pages) = i
        /\ writeCalls = 0
        /\ fileContent = None
        /\ artifact = None
        /\ payload = None

\* C5 witness: page 3 fails after two pages were embedded
C5_ThirdPageFails ==
    /\ error \in PageErrors
    /\ i = 2
    /\ Len(pages) = 2
    /\ Len(captures.items) > 3

\* C6: when a manipulateAsync call fails or yields no payload, on any attempt,
\* buildScanReadyAsset fails: no result is returned (no fallback to an earlier
\* attempt), no page is added, and a returned page is never empty
C6_EncodeFailurePropagates ==
    /\ lastOutcome = "failed" =>
         /\ pc = "failed"
         /\ error \in { "manipulateAsync failed", "Failed to convert page to base64" }
         /\ prepared = None
         /\ Len(pages) = i
    /\ prepared.kind = "image" => prepared.base64.len > 0

\* C6 witness: a later attempt fails after an earlier, over-budget one succeeded
C6_LaterAttemptFails ==
    /\ lastOutcome = "failed"
    /\ lastResult.kind = "image"
    /\ manipCalls >= 2

\* C7: a payload is returned only for a document whose encoded size is at most
\* 50 MB, on every platform
C7_SizeCeiling ==
    payload.kind = "data" =>
        EstimateByteSize(payload.base64) <= 50 * 1024 * 1024

\* C8: on web a data URI is returned as it came in; on native the payload is
\* the prefix followed by the whole base64 content of the file
C8_ContentUnaltered ==
    /\ (platform = "web" /\ pc = "done") => payload = artifact.uri
    /\ (platform = "native" /\ pc = "done") =>
         /\ payload.kind = "data"
         /\ payload.prefix = "data:application/pdf;base64,"
         /\ payload.base64 = fileContent

\* C8 witness: a native document of exactly 50 MB converted
C8_NativeLargeConverted ==
    /\ platform = "native"
    /\ pc = "done"
    /\ EstimateByteSize(fileContent) = 50 * 1024 * 1024

\* C19: the result buildScanReadyAsset returns is that of its latest attempt,
\* which is the first attempt under budget or made at both floors: every
\* earlier attempt was over budget and above a floor, and no manipulateAsync
\* call was made after it
C19_FirstAcceptedReturned ==
    (pc = "embed" /\ prepared.kind = "image") =>
        LET n == Len(attemptLog)
        IN /\ n >= 1
           /\ manipCalls = n
           /\ prepared.width = attemptLog[n].width
           /\ prepared.quality = attemptLog[n].quality
           /\ EstimateByteSize(prepared.base64) = attemptLog[n].byteSize
           /\ \/ attemptLog[n].byteSize <= 350 * 1024
              \/ (attemptLog[n].width <= 1000 /\ attemptLog[n].quality <= 40)
           /\ \A k \in 1..(n - 1) :
                /\ attemptLog[k].byteSize > 350 * 1024
                /\ (attemptLog[k].width > 1000 \/ attemptLog[k].quality > 40)

\* C19 witness: the third attempt returned, under budget and above the floors,
\* after two attempts over budget
C19_ThirdAttemptReturned ==
    /\ pc = "embed"
    /\ prepared.kind = "image"
    /\ Len(attemptLog) = 3
    /\ attemptLog[3].byteSize <= 350 * 1024
    /\ attemptLog[3].width > 1000
    /\ attemptLog[1].byteSize > 350 * 1024

\* C20: every attempt is made at a width of 1000..1500 and a quality of
\* 0.40..0.58; from one attempt to the next the width becomes
\* max(1000, floor(width * 0.86)) and the quality max(0.40, quality - 0.07),
\* neither grows, and the two attempts differ in a parameter
C20_LadderParameters ==
    /\ \A k \in 1..Len(attemptLog) :
         /\ attemptLog[k].width >= 1000
         /\ attemptLog[k].width <= 1500
         /\ attemptLog[k].quality >= 40
         /\ attemptLog[k].quality <= 58
    /\ \A k \in 2..Len(attemptLog) :
         LET a == attemptLog[k - 1]
             b == attemptLog[k]
         IN /\ b.width = Max(1000, (a.width * 86) \div 100)
            /\ b.quality = Max(40, a.quality - 7)
            /\ b.width <= a.width
            /\ b.quality <= a.quality
            /\ (b.width # a.width \/ b.quality # a.quality)
    /\ pc = "attempt" =>
         /\ width >= 1000
         /\ width <= 1500
         /\ compression >= 40
         /\ compression <= 58

\* C20 witness: four attempts, the last at both floors
C20_FourRungs ==
    /\ Len(attemptLog) = 4
    /\ attemptLog[1].width = 1500
    /\ attemptLog[1].quality = 58
    /\ attemptLog[4].width = 1000
    /\ attemptLog[4].quality = 40

-----------------------------------------------------------------------------
(* Properties of sanitizeFileName (under SpecSanitize) *)

\* the argument has no character of [A-Za-z0-9_.-] (or is empty, or missing)
NoValidChar(value) ==
    ~value.defined \/ \A k \in 1..Len(value.text) : value.text[k] \notin ValidChars

\* C9: for every input, strings longer than 80 characters included, the result
\* has only characters of [A-Za-z0-9_.-], no two consecutive underscores, no
\* leading and no trailing underscore and at most 80 characters; it is
\* 'document' for an empty or missing input or one without a valid character
C9_SanitizedName ==
    sanPc = "done" =>
        /\ \A k \in 1..Len(sanResult) : sanResult[k] \in ValidChars
        /\ \A k \in 1..(Len(sanResult) - 1) :
             ~(sanResult[k] = "_" /\ sanResult[k + 1] = "_")
        /\ Len(sanResult) > 0
        /\ sanResult[1] # "_"
        /\ sanResult[Len(sanResult)] # "_"
        /\ Len(sanResult) <= 80
        /\ NoValidChar(sanValue) => sanResult = DefaultName

-----------------------------------------------------------------------------
(* Properties of applyScanMatrix (under SpecScan) *)

\* C10: the buffer keeps its length, every alpha byte keeps the value it had
\* before the call, and every pixel the loop has passed has R = G = B (all
\* of them once the function has returned)
C10_GrayAlphaPreserved ==
    /\ Len(scanData) = Len(scanInput)
    /\ \A p \in 0..((Len(scanInput) \div 4) - 1) :
         /\ scanData[4 * p + 4] = scanInput[4 * p + 4]
         /\ (scanPc = "done" \/ 4 * p < scanI) =>
              /\ scanData[4 * p + 1] = scanData[4 * p + 2]
              /\ scanData[4 * p + 2] = scanData[4 * p + 3]

\* C11: under either constant set (1.2 / 0.0 and 1.8 / 0.06) the value written
\* to R, G and B of every pixel the loop has passed is an integer of 0..255;
\* a black pixel is written as 0 and a white pixel as 255
C11_RangeSafe ==
    \A p \in 0..((Len(scanInput) \div 4) - 1) :
        (scanPc = "done" \/ 4 * p < scanI) =>
            /\ \A c \in 1..3 : scanData[4 * p + c] \in 0..255
            /\ (\A c \in 1..3 : scanInput[4 * p + c] = 0) =>
                 (\A c \in 1..3 : scanData[4 * p + c] = 0)
            /\ (\A c \in 1..3 : scanInput[4 * p + c] = 255) =>
                 (\A c \in 1..3 : scanData[4 * p + c] = 255)

\* C11 witness: a dark pixel, whose value before the clamp is negative,
\* filtered with the earlier constants
C11_DarkPixelClamped ==
    /\ scanPc = "done"
    /\ scanVariant = "earlier"
    /\ Len(scanInput) = 4
    /\ Unclamped10000(scanInput[1], scanInput[2], scanInput[3]) < 0
    /\ scanInput[2] > 0
    /\ scanData[1] = 0

-----------------------------------------------------------------------------
(* Properties of the crop geometry (under SpecCrop) *)

\* the guide frame is the whole screen and the screen has the size of the image
FullViewportGuide ==
    /\ cropEdits.guideFrame # None
    /\ cropEdits.guideFrame.screenWidth = cropDims.width
    /\ cropEdits.guideFrame.screenHeight = cropDims.height
    /\ cropEdits.guideFrame.x = 0
    /\ cropEdits.guideFrame.y = 0
    /\ cropEdits.guideFrame.width = cropDims.width
    /\ cropEdits.guideFrame.height = cropDims.height

\* C12: with rotation 0, a guide frame that is the whole screen, on a screen of
\* the size of the image, gives exactly the full image: origin (0, 0), the
\* width and the height of the image
C12_FullViewportFullImage ==
    (cropPc = "done" /\ cropEdits.autoDetectCrop /\ cropEdits.rotation = 0
        /\ FullViewportGuide) =>
        /\ cropResult.kind = "rect"
        /\ cropResult.originX = 0
        /\ cropResult.originY = 0
        /\ cropResult.width = cropDims.width * cropResult.den
        /\ cropResult.height = cropDims.height * cropResult.den

\* C12 witness: the full-screen guide on a 3000 x 4000 image
C12_FullGuideOnCameraImage ==
    /\ cropPc = "done"
    /\ cropEdits.autoDetectCrop
    /\ cropEdits.rotation = 0
    /\ FullViewportGuide
    /\ cropDims = [width |-> 3000, height |-> 4000]
    /\ cropResult.kind = "rect"

\* C13: calculateAutoCrop never returns a rectangle whose width or height is
\* not positive (it returns null where clamping leaves nothing)
C13_NullWhenEmpty ==
    (cropPc = "done" /\ cropResult.kind = "rect") =>
        /\ cropResult.width > 0
        /\ cropResult.height > 0

-----------------------------------------------------------------------------
(* Properties of the editing state (under SpecEditor) *)

\* C15: the rotation is a multiple of 90 within [-180, 180], and validateEdits
\* accepts it
C15_RotationInRange ==
    editorPc = "ready" =>
        /\ editing.rotation % 90 = 0
        /\ editing.rotation >= -180
        /\ editing.rotation <= 180
        /\ ValidateEdits([editing EXCEPT !.crop = None])

\* C16: a crop that is present lies within the image as it is once rotated,
\* and its width and height are positive
C16_CropWithinRotated ==
    (editorPc = "ready" /\ editing.crop # None) =>
        CropWithin(editing.crop, EffectiveDims(imageDims, editing.rotation))

-----------------------------------------------------------------------------
(* Properties of the App's captures (under SpecApp) *)

\* C17: the captures list never holds more than MAX_PAGES = 5 entries, and an
\* onAddCapture call made when it holds 5 leaves it as it was
C17_PageCap ==
    /\ Len(appCaptures) <= 5
    /\ (lastOp.op = "add" /\ lastOp.full) => lastOp.same

\* C17 witness: onAddCapture called on a full list
C17_AddOnFullList ==
    /\ lastOp.op = "add"
    /\ lastOp.full
    /\ Len(appCaptures) = 5

-----------------------------------------------------------------------------
(* Properties of the Processing screen (under SpecProc) *)

\* C18: a step of a run whose screen was left (or whose effect was cleaned
\* up) while its work was in flight changes neither the screen, nor the
\* analysis, nor the error state, and calls onAnalyzed for no run
C18_AbandonedDiscarded ==
    [][\A n \in 1..Len(runs) :
          (runs[n].abandoned /\ runs'[n] # runs[n]) =>
              /\ screen' = screen
              /\ analysis' = analysis
              /\ procError' = procError
              /\ analyzedBy' = analyzedBy]_vars

\* C18 witness: the work of an abandoned run has run to completion after the
\* user went back, and the page review is still shown
C18_AbandonedRunCompleted ==
    /\ screen = "PageReview"
    /\ \E n \in 1..Len(runs) : runs[n].abandoned /\ runs[n].pc = "done"

\* C10 witness: a two-pixel buffer filtered, its first pixel coloured and
\* half transparent before the call
C10_ColouredPixelFiltered ==
    /\ scanPc = "done"
    /\ Len(scanInput) = 8
    /\ scanInput[1] # scanInput[2]
    /\ scanInput[4] = 128
    /\ scanData[1] = scanData[2]

-----------------------------------------------------------------------------
(* Properties of the App's screens (under SpecNav) *)

\* C30: in every reachable state, screen = 'Processing' implies that the
\* captures are not empty, and screen = 'Confirm' or 'Upload' implies that
\* analysis is not null and carries the pdfDataUri of the Processing run that
\* reported it
C30_ScreenInvariant ==
    /\ screen = "Processing" => appCaptures # <<>>
    /\ screen \in { "Confirm", "Upload" } =>
         /\ analysis # None
         /\ analysis.kind = "analysis"
         /\ "pdfDataUri" \in DOMAIN analysis
         /\ analysis.pdfDataUri = [kind |-> "dataUri", by |-> analysis.by]
         /\ analysis.by \in analyzedBy

\* C30 witness: the upload screen reached with an analysis confirmed after a
\* second Processing run
C30_ConfirmedAfterSecondRun ==
    /\ screen = "Upload"
    /\ "confirmedPath" \in DOMAIN analysis
    /\ analysis.by = 2
    /\ appCaptures # <<>>

-----------------------------------------------------------------------------
(* Properties of the Camera screen (under SpecCamera) *)

\* C29: each photograph results in at most one entry appended to the
\* captures, whatever the interleaving of the editor's Save with Cancel and
\* with further photographs
C29_OneEntryPerPhoto ==
    \A p \in 1..MaxPhotos :
        Cardinality({ k \in 1..Len(addedFor) : addedFor[k] = p }) <= 1

-----------------------------------------------------------------------------
(* Further properties of the App's captures list (under SpecApp) *)

\* C28: onReorder(fromIndex, direction) never adds, drops or duplicates a
\* capture: the new list is a permutation of the old one of the same length,
\* only the entries at fromIndex and fromIndex + direction exchange places, a
\* move whose target is below 0 or at least the length changes nothing, and
\* moving the capture back up after a move down restores the order
C28_ReorderSwapsNeighbours ==
    [][lastOp'.op = "reorder" =>
        LET f == lastOp'.fromIndex
            d == lastOp'.direction
            t == f + d
            n == Len(appCaptures)
        IN /\ Len(appCaptures') = n
           /\ \A k \in 1..n :
                Cardinality({ j \in 1..n : appCaptures'[j] = appCaptures[k] })
                    = Cardinality({ j \in 1..n : appCaptures[j] = appCaptures[k] })
           /\ (t < 0 \/ t >= n) => appCaptures' = appCaptures
           /\ (t >= 0 /\ t < n) =>
                /\ appCaptures'[t + 1] = appCaptures[f + 1]
                /\ appCaptures'[f + 1] = appCaptures[t + 1]
                /\ \A k \in 1..n : k \notin { f + 1, t + 1 } =>
                                       appCaptures'[k] = appCaptures[k]
           /\ (d = 1 /\ t < n) => Reorder(appCaptures', t, -1) = appCaptures
    ]_vars

\* C28 witness: the second of three captures moved down to the last place
C28_MovedDown ==
    /\ lastOp.op = "reorder"
    /\ lastOp.direction = 1
    /\ lastOp.fromIndex = 1
    /\ ~lastOp.same
    /\ Len(appCaptures) = 3

-----------------------------------------------------------------------------
(* Further properties of calculateAutoCrop (under SpecCrop) *)

\* C25: with a rotation that is an odd multiple of 90, calculateAutoCrop
\* returns what it returns with rotation 0 on the swapped image size H x W;
\* with rotation 0 or +/-180 the image size is used unswapped
C25_RotationSwapsDims ==
    cropPc = "done" =>
        LET unrotated == [cropEdits EXCEPT !.rotation = 0]
            swapped == [width |-> cropDims.height, height |-> cropDims.width]
        IN /\ cropEdits.rotation \in { 90, -90, 270 } =>
                cropResult = CalculateAutoCrop(swapped, unrotated)
           /\ cropEdits.rotation \in { 0, 180, -180 } =>
                cropResult = CalculateAutoCrop(cropDims, unrotated)

\* C25 witness: a guide crop of a 3000 x 4000 image turned by -90, which
\* differs from the crop of the unturned image
C25_TurnedGuideCrop ==
    /\ cropPc = "done"
    /\ cropEdits.rotation = -90
    /\ cropEdits.guideFrame # None
    /\ cropDims = [width |-> 3000, height |-> 4000]
    /\ cropResult # None
    /\ cropResult # CalculateAutoCrop(cropDims, [cropEdits EXCEPT !.rotation = 0])

\* the guide frame of the call lies inside its viewport
GuideInsideViewport ==
    /\ cropEdits.autoDetectCrop
    /\ cropEdits.guideFrame # None
    /\ cropEdits.guideFrame.x >= 0
    /\ cropEdits.guideFrame.y >= 0
    /\ cropEdits.guideFrame.x + cropEdits.guideFrame.width
           <= cropEdits.guideFrame.screenWidth
    /\ cropEdits.guideFrame.y + cropEdits.guideFrame.height
           <= cropEdits.guideFrame.screenHeight

-----------------------------------------------------------------------------
(* Further properties of generatePdfFromImages (under SpecPdf) *)

\* C24: pages are processed one at a time in input order: the k-th callback
\* is { current: k, total: N }, one callback is emitted per embedded page,
\* the preparation of a page starts only once every earlier page has been
\* embedded and reported; on success N callbacks have been emitted, on a
\* failure at page k exactly k - 1
C24_SequentialProgress ==
    /\ \A k \in 1..Len(progress) :
         progress[k] = [current |-> k, total |-> Len(captures.items)]
    /\ Len(progress) = Len(pages)
    /\ prepStarted <= Len(progress) + 1
    /\ artifact.kind = "artifact" => Len(progress) = Len(captures.items)
    /\ error \in PageErrors => Len(progress) = prepStarted - 1

\* C24 witness: a document of three pages returned after three callbacks
C24_ThreeCallbacks ==
    /\ artifact.kind = "artifact"
    /\ Len(captures.items) = 3
    /\ Len(progress) = 3
    /\ progress[3].current = 3

\* C27: the name of the artifact returned is the sanitized title followed by
\* '.pdf', on every platform
C27_ArtifactNameSanitized ==
    artifact.kind = "artifact" =>
        artifact.name = SanitizeFileName(Str(title)) \o PdfSuffix

-----------------------------------------------------------------------------
(* Properties of applyEdits and of the operations on an image (under         *)
(* SpecApply)                                                                *)

\* C21: the geometric operations handed to manipulateAsync are, in this order,
\* rotate, crop, flip horizontal, flip vertical, each there exactly when its
\* edit is set; they come first in the log, and the first attempt of the
\* budget loop afterwards resizes to 1500 and compresses at 0.58
C21_OperationOrder ==
    applyPc \in { "filter", "done", "prepared" } =>
        LET edits == applyArgs.edits
            rank == [o \in { "rotate", "crop", "flip horizontal", "flip vertical" } |->
                       CASE o = "rotate" -> 1 [] o = "crop" -> 2
                         [] o = "flip horizontal" -> 3 [] OTHER -> 4]
            geo == SelectSeq(opLog, LAMBDA o : o.op \in DOMAIN rank)
            has(name) == \E k \in 1..Len(geo) : geo[k].op = name
        IN /\ \A k \in 1..Len(geo) : opLog[k] = geo[k]
           /\ \A j \in 1..Len(geo), k \in 1..Len(geo) :
                j < k => rank[geo[j].op] < rank[geo[k].op]
           /\ has("rotate") <=> edits.rotation # 0
           /\ has("rotate") => geo[1].arg = edits.rotation
           /\ has("crop") <=> edits.crop
           /\ has("flip horizontal") <=> edits.flipHorizontal
           /\ has("flip vertical") <=> edits.flipVertical
           /\ applyPc = "prepared" =>
                /\ opLog[Len(opLog) - 1] = [op |-> "resize", arg |-> 1500]
                /\ opLog[Len(opLog)] = [op |-> "compress", arg |-> 58]

\* C21 witness: all four edits set, and the first attempt made
C21_AllFourThenFirstAttempt ==
    /\ applyPc = "prepared"
    /\ Len(opLog) >= 7
    /\ opLog[1].op = "rotate"
    /\ opLog[2].op = "crop"
    /\ opLog[3].op = "flip horizontal"
    /\ opLog[4].op = "flip vertical"

\* C22: an image applyEdits returns with scanMode set and the filter not
\* skipped has been filtered; one returned without scanMode has not
C22_FilterAppliedOrFails ==
    (applyPc \in { "done", "prepared" } /\ applyOut.kind = "uri") =>
        /\ (applyArgs.edits.scanMode /\ ~applyArgs.skipFilter) => applyOut.filtered
        /\ ~applyArgs.edits.scanMode => ~applyOut.filtered

\* C23: no resize and no compression of the image follows the filter
C23_FilterLast ==
    \A j \in 1..Len(opLog), k \in 1..Len(opLog) :
        (j < k /\ opLog[j].op = "filter") => opLog[k].op \notin { "resize", "compress" }

====
